---- MODULE Spec2Model ----
(***************************************************************************)
(* The generation gateway of SkillFlow: the POST handler of the generate   *)
(* route (cache lookup, prompt, model waterfall with a per-attempt         *)
(* timeout, cache insert, video search) as a state machine.  One request   *)
(* is one slot r; a slot advances by one step per await of the handler.    *)
(* Text is a sequence of one-character strings, so that trim, toLowerCase  *)
(* and replace are computed as the code computes them.                     *)
(***************************************************************************)
EXTENDS Integers, Sequences, FiniteSets, TLC

\* ------------------------------------------------------------------ bounds
\* Number of request slots (requests that may overlap in time).
NumReq == 2
\* Provider calls of one request that lost the race and are still running.
MaxAbandoned == 1

Req == 1..NumReq

\* ------------------------------------------------------------ text helpers
UpperChars == <<"A","B","C","D","E","F","G","H","I","J","K","L","M",
                "N","O","P","Q","R","S","T","U","V","W","X","Y","Z">>
LowerChars == <<"a","b","c","d","e","f","g","h","i","j","k","l","m",
                "n","o","p","q","r","s","t","u","v","w","x","y","z">>
WhiteSpace == {" ", "\t", "\n"}

\* A body field that the request did not send (JS undefined).
Undefined == <<"undefined">>

\* JS truthiness of a string-or-undefined value.
Truthy(s) == s # Undefined /\ s # <<>>

LowerChar(c) ==
  IF \E i \in 1..Len(UpperChars) : UpperChars[i] = c
  THEN LowerChars[CHOOSE i \in 1..Len(UpperChars) : UpperChars[i] = c]
  ELSE c

\* String.prototype.toLowerCase
ToLowerCase(s) == [i \in 1..Len(s) |-> LowerChar(s[i])]

RECURSIVE TrimStart(_)
TrimStart(s) ==
  IF s # <<>> /\ Head(s) \in WhiteSpace THEN TrimStart(Tail(s)) ELSE s

RECURSIVE TrimEnd(_)
TrimEnd(s) ==
  IF s # <<>> /\ s[Len(s)] \in WhiteSpace
  THEN TrimEnd(SubSeq(s, 1, Len(s) - 1))
  ELSE s

\* String.prototype.trim
Trim(s) == TrimEnd(TrimStart(s))

\* Mutant: every single whitespace character becomes a hyphen.
ReplaceWs_Each(s) == [i \in 1..Len(s) |-> IF s[i] \in WhiteSpace THEN "-" ELSE s[i]]

\* s.replace(/\s+/g, '-'): every maximal run of whitespace becomes one hyphen.
RECURSIVE ReplaceWs(_)
ReplaceWs(s) ==
  IF s = <<>> THEN <<>>
  ELSE IF Head(s) \in WhiteSpace
       THEN <<"-">> \o ReplaceWs(TrimStart(s))
       ELSE <<Head(s)>> \o ReplaceWs(Tail(s))

\* x || d
OrDefault(x, d) == IF Truthy(x) THEN x ELSE d

S_uploaded_file == <<"u","p","l","o","a","d","e","d","-","f","i","l","e">>
S_lesson    == <<"l","e","s","s","o","n">>
S_quiz      == <<"q","u","i","z">>
S_default   == <<"d","e","f","a","u","l","t">>
S_medium    == <<"m","e","d","i","u","m">>
S_paragraph == <<"p","a","r","a","g","r","a","p","h">>
Hyphen      == <<"-">>

\* Mutant: the topic is not lower-cased.
CleanTopic_NoLower(topic) ==
  IF Truthy(topic) THEN Trim(topic) ELSE S_uploaded_file

\* const cleanTopic = topic ? topic.trim().toLowerCase() : "uploaded-file"
CleanTopic(topic) ==
  IF Truthy(topic) THEN ToLowerCase(Trim(topic)) ELSE S_uploaded_file

\* Mutant: the level enters the key as it was sent.
CacheKey_RawLevel(q) ==
  ReplaceWs(CleanTopic(q.topic)) \o Hyphen \o
  q.level \o Hyphen \o
  ToLowerCase(q.language) \o Hyphen \o
  OrDefault(q.mode, S_lesson) \o Hyphen \o
  OrDefault(q.explanationStyle, S_default) \o Hyphen \o
  OrDefault(q.complexity, S_medium) \o Hyphen \o
  OrDefault(q.format, S_paragraph)

\* The template string of the cache key.
CacheKey(q) ==
  ReplaceWs(CleanTopic(q.topic)) \o Hyphen \o
  ToLowerCase(q.level) \o Hyphen \o
  ToLowerCase(q.language) \o Hyphen \o
  OrDefault(q.mode, S_lesson) \o Hyphen \o
  OrDefault(q.explanationStyle, S_default) \o Hyphen \o
  OrDefault(q.complexity, S_medium) \o Hyphen \o
  OrDefault(q.format, S_paragraph)

\* --------------------------------------------------------- configuration
MODELS_TO_TRY ==
  << "gemini-3-flash-preview", "gemini-2.5-flash", "gemini-2.5-flash-lite",
     "gemma-3-27b", "gemma-3-12b", "gemma-3-4b", "gemma-3-2b",
     "gemma-3-1b", "gemma-3-1b",
     "gemini-robotics-er-1.5-preview", "gemini-1.5-flash" >>

NumModels == Len(MODELS_TO_TRY)

\* The two environment variables a credential can come from.
KeyEnv == <<"GOOGLE_API_KEY", "QUIZ">>

\* topic.length > 500
MaxTopicLen == 500
\* fileData.length > 10 * 1024 * 1024
MaxFileLen == 10 * 1024 * 1024
\* fileData is modelled by its length; NoFile is a body without fileData.
NoFile == 0 - 1

\* JS truthiness of fileData (undefined and "" are falsy).
HasFile(q) == q.fileData # NoFile /\ q.fileData > 0

\* ------------------------------------------------------- provider payloads
\* A JSON value the provider's text can decode to.  video_url is a sequence
\* of string parts, empty when the field is absent.
Opt4 == <<"A", "B", "C", "D">>

JNull == [type |-> "null"]

LessonOK ==
  [type |-> "lesson", title |-> "Photosynthesis basics",
   explanation |-> "e", analogy |-> "a",
   key_points |-> <<"p1", "p2", "p3">>, quiz_question |-> "q",
   options |-> Opt4, correct_answer |-> "A", video_url |-> <<>>]

WatchUrl == "https://www.youtube.com/watch?v="

\* The prompt asks the provider for a video_url of its own.
LessonVid == [LessonOK EXCEPT !.video_url = <<WatchUrl, "from-provider">>]

\* correct_answer is none of the options.
LessonBad == [LessonOK EXCEPT !.correct_answer = "E"]

\* Two options and two key points, as in the schema example of the prompt.
LessonShort ==
  [LessonOK EXCEPT !.options = <<"A", "B">>, !.key_points = <<"p1", "p2">>]

QuizQ(ans) == [question |-> "q", options |-> Opt4, correct_answer |-> ans]

QuizOK ==
  [type |-> "quiz", title |-> "Quiz",
   questions |-> <<QuizQ("A"), QuizQ("B"), QuizQ("C"), QuizQ("D"), QuizQ("A")>>]

\* Three questions, one whose correct_answer is none of its options.
QuizBad ==
  [type |-> "quiz", title |-> "Quiz",
   questions |-> <<QuizQ("A"), QuizQ("E"), QuizQ("C")>>]

\* The provider's raw text as a sequence of tokens: a code fence with or
\* without the json tag (three backquotes, here fence), whitespace, text that is no JSON, or one JSON value.
Tok(t, v) == [t |-> t, v |-> v]
Fence     == Tok("fence", JNull)
FenceJson == Tok("fencejson", JNull)
Ws        == Tok("ws", JNull)
Junk      == Tok("junk", JNull)
J(v)      == Tok("json", v)

RawTexts ==
  { <<J(LessonOK)>>,
    <<FenceJson, Ws, J(LessonVid), Ws, Fence>>,
    <<J(LessonBad)>>,
    <<Fence, J(LessonShort), Fence>>,
    <<FenceJson, J(QuizOK), Fence, Ws>>,
    <<J(QuizBad)>>,
    <<J(JNull)>>,
    <<FenceJson, Junk, Ws, J(LessonOK), Fence>>,
    <<>> }

\* text.replace(/(fence)json|(fence)/g, "")
StripFences(raw) == SelectSeq(raw, LAMBDA k : k.t \notin {"fence", "fencejson"})

RECURSIVE TrimTokStart(_)
TrimTokStart(s) ==
  IF s # <<>> /\ Head(s).t = "ws" THEN TrimTokStart(Tail(s)) ELSE s

RECURSIVE TrimTokEnd(_)
TrimTokEnd(s) ==
  IF s # <<>> /\ s[Len(s)].t = "ws"
  THEN TrimTokEnd(SubSeq(s, 1, Len(s) - 1))
  ELSE s

\* response.text().replace(/(fence)json|(fence)/g, "").trim()
CleanText(raw) == TrimTokEnd(TrimTokStart(StripFences(raw)))

\* JSON.parse(text) returns a value exactly when the text is one JSON value;
\* otherwise it throws a SyntaxError.
JsonParses(text) == Len(text) = 1 /\ text[1].t = "json"
JsonParse(text) == text[1].v

\* JS truthiness of a parsed value (null is the falsy one here).
TruthyVal(v) == v # JNull

\* ---------------------------------------------------------------- requests
S_Photosynthesis == <<"P","h","o","t","o","s","y","n","t","h","e","s","i","s">>
S_Beginner == <<"B","e","g","i","n","n","e","r">>
S_English  == <<"E","n","g","l","i","s","h">>

\* The example request of the specification.
ReqLesson ==
  [topic |-> S_Photosynthesis, level |-> S_Beginner, language |-> S_English,
   mode |-> S_lesson, fileData |-> NoFile, explanationStyle |-> Undefined,
   complexity |-> Undefined, format |-> Undefined]

ReqQuiz == [ReqLesson EXCEPT !.mode = S_quiz]

\* An upload without a topic.
ReqFile == [ReqLesson EXCEPT !.topic = Undefined, !.fileData = 2048]

ReqLongTopic == [ReqLesson EXCEPT !.topic = [i \in 1..(MaxTopicLen + 1) |-> "a"]]

ReqBigFile == [ReqFile EXCEPT !.fileData = MaxFileLen + 1]

\* A body without level: level.toLowerCase() throws.
ReqNoLevel == [ReqLesson EXCEPT !.level = Undefined]

Requests == {ReqLesson, ReqQuiz, ReqFile, ReqLongTopic, ReqBigFile, ReqNoLevel}

\* ------------------------------------------------------------------- state
VARIABLES
  API_KEYS,         \* the credential pool: the configured key variables
  YOUTUBE_API_KEY,  \* whether the video search key is configured
  topic_cache,      \* the rows of the cache table, in insertion order
  slot,             \* per request: the handler's locals and its position
  abandoned,        \* per request: provider calls that lost the race and still run
  ui                \* the page: the React state of Home and its fetches

vars == <<API_KEYS, YOUTUBE_API_KEY, topic_cache, slot, abandoned, ui>>

\* Answers are recorded for the first questions of a quiz only.
UiQuestions == 2

\* The page after its first render (the useState initial values).  The
\* fields after quizSubmitted are not React state: the body of each fetch to
\* /api/generate (bodies), the fetches that have not returned (inflight),
\* the requests in the order startLearning sent them (started) and the
\* request whose result setData has put on the page (dataOf, 0 for none).
UiInit ==
  [topic |-> <<>>, file |-> FALSE, mode |-> S_lesson,
   data |-> JNull, loading |-> FALSE, error |-> "",
   quizAnswers |-> [i \in 1..UiQuestions |-> ""], quizSubmitted |-> FALSE,
   bodies |-> [r \in Req |-> ReqLesson], inflight |-> {}, started |-> <<>>,
   dataOf |-> 0]

NoResponse == [status |-> 0, body |-> JNull]

\* No provider text (the attempt settled without one).
NoRaw == <<Tok("none", JNull)>>

\* A slot before its request arrives.  cacheKey is the handler's local of
\* that name.  The fields after response record what the handler did: the
\* candidates it called (issued), those whose attempt failed (failed) and
\* those it passed over (skipped), the text of the attempt that settled last
\* (lastRaw), the attempt whose text JSON.parse accepted (parsedAt, parsed),
\* the reason the provider gave for the failure that came last (lastReason),
\* the selects and inserts it sent (reads, writes), whether the select
\* returned a row (hit) or the store failed to answer it (lookupFailed), the
\* number of rows the table held under the key when the select ran
\* (rowsSeen), whether the insert stored a row (inserted) or the store call
\* raised (storeRaised), the video search (searched, searchOutcome), the
\* number of responses returned (sent) and the referer header the request
\* came with (referer).  systemPrompt is the handler's local of that name.
IdleSlot ==
  [pc |-> "idle", req |-> ReqLesson, modelIdx |-> 0, activeKey |-> "none",
   cacheKey |-> <<>>,
   finalResult |-> JNull, lastError |-> "", response |-> NoResponse,
   issued |-> <<>>, failed |-> <<>>, skipped |-> <<>>, lastRaw |-> NoRaw,
   parsedAt |-> 0, parsed |-> JNull, lastReason |-> "",
   reads |-> 0, hit |-> FALSE, lookupFailed |-> FALSE, rowsSeen |-> 0,
   writes |-> 0, inserted |-> FALSE, storeRaised |-> FALSE,
   searched |-> FALSE, searchOutcome |-> "none", sent |-> 0,
   referer |-> Undefined, systemPrompt |-> <<>>]

\* const getRandomKey = () => API_KEYS[Math.floor(Math.random() * API_KEYS.length)]
getRandomKey(pool) ==
  IF pool = <<>> THEN {"undefined"} ELSE {pool[i] : i \in 1..Len(pool)}

\* The rows of the table under a key, in insertion order.
Matching(rows, key) == SelectSeq(rows, LAMBDA row : row.topic_slug = key)

\* .eq("topic_slug", key).single(): the row's content when exactly one row
\* matches; no data (an error) when none or several match.
SelectSingle(rows, key) ==
  LET hit == SelectSeq(rows, LAMBDA row : row.topic_slug = key)
  IN  IF Len(hit) = 1 THEN [found |-> TRUE, content |-> hit[1].content]
      ELSE [found |-> FALSE, content |-> JNull]

\* return NextResponse.json(finalResult)
Respond(s) ==
  [s EXCEPT !.pc = "done", !.sent = @ + 1,
            !.response = [status |-> 200, body |-> s.finalResult]]

\* Mutant: the error response also carries what was generated so far.
RespondError_WithResult(s, status, msg) ==
  [s EXCEPT !.pc = "done", !.sent = @ + 1,
            !.response = [status |-> status,
                          body |-> [error |-> msg, result |-> s.finalResult]]]

\* return NextResponse.json({ error: ... }, { status })
RespondError(s, status, msg) ==
  [s EXCEPT !.pc = "done", !.sent = @ + 1,
            !.response = [status |-> status, body |-> [error |-> msg]]]

\* Step 5: the video search is called for a lesson with a title.
Enrich(s) ==
  IF s.finalResult.type = "lesson" /\ s.finalResult.title # ""
  THEN [s EXCEPT !.pc = "awaitVideo", !.searched = TRUE]
  ELSE Respond(s)

\* Mutant: the check of finalResult after the loop is missing.
AfterLoop_NoThrow(s) ==
  LET t == [s EXCEPT !.activeKey = "none"]
  IN  IF ~HasFile(t.req)
      THEN [t EXCEPT !.pc = "awaitInsert", !.writes = @ + 1]
      ELSE Enrich(t)

\* Mutant: the insert is sent for uploads too.
AfterLoop_AlwaysInsert(s) ==
  LET t == [s EXCEPT !.activeKey = "none"]
  IN  IF ~TruthyVal(t.finalResult)
      THEN RespondError(t, 500, <<"System busy. Please try again. ", t.lastError>>)
      ELSE [t EXCEPT !.pc = "awaitInsert", !.writes = @ + 1]

\* After the loop (its locals are gone): throw when nothing was parsed,
\* else insert (no file) or go on to the video search.
AfterLoop(s) ==
  LET t == [s EXCEPT !.activeKey = "none"]
  IN  IF ~TruthyVal(t.finalResult)
      THEN RespondError(t, 500, <<"System busy. Please try again. ", t.lastError>>)
      ELSE IF ~HasFile(t.req)
           THEN [t EXCEPT !.pc = "awaitInsert", !.writes = @ + 1]
           ELSE Enrich(t)

\* Mutant: candidate i and its successor are called at once.
IssueAttempt_Pair(s, i, key) ==
  [s EXCEPT !.pc = "awaitRace", !.modelIdx = i, !.activeKey = key,
            !.issued = IF i < NumModels THEN @ \o <<i, i + 1>> ELSE Append(@, i)]

\* Mutant: the table is looked up again before each call.
IssueAttempt_Reread(s, i, key) ==
  [s EXCEPT !.pc = "awaitRace", !.modelIdx = i, !.activeKey = key,
            !.issued = Append(@, i), !.reads = @ + 1]

\* One loop iteration up to its await: draw a key, call generateContent.
IssueAttempt(s, i, key) ==
  [s EXCEPT !.pc = "awaitRace", !.modelIdx = i, !.activeKey = key,
            !.issued = Append(@, i)]

\* Mutant: the loop starts at the second candidate.
StartWaterfall_Second(s, key) ==
  [s EXCEPT !.finalResult = JNull, !.lastError = "", !.pc = "awaitRace",
            !.modelIdx = 2, !.activeKey = key, !.issued = Append(@, 2)]

\* let finalResult = null; let lastError = ""; for (const modelName of MODELS_TO_TRY)
StartWaterfall(s, key) ==
  IssueAttempt([s EXCEPT !.finalResult = JNull, !.lastError = ""], 1, key)

\* Mutant: only the first failure's message is kept.
OnAttemptFailed_FirstError(s, msg, key) ==
  LET f == [s EXCEPT !.lastError = IF @ = "" THEN msg ELSE @,
                     !.failed = Append(@, s.modelIdx)]
  IN  IF s.modelIdx < NumModels
      THEN IssueAttempt(f, s.modelIdx + 1, key)
      ELSE AfterLoop(f)

\* Mutant: a failure of the last candidate calls the last candidate again.
OnAttemptFailed_RetryLast(s, msg, key) ==
  IF s.modelIdx < NumModels
  THEN IssueAttempt([s EXCEPT !.lastError = msg, !.failed = Append(@, s.modelIdx)],
                    s.modelIdx + 1, key)
  ELSE [s EXCEPT !.lastError = msg, !.activeKey = key]

\* catch (error) { lastError = error.message } and the next iteration.
OnAttemptFailed(s, msg, key) ==
  LET f == [s EXCEPT !.lastError = msg, !.failed = Append(@, s.modelIdx)]
  IN  IF s.modelIdx < NumModels
      THEN IssueAttempt(f, s.modelIdx + 1, key)
      ELSE AfterLoop(f)

\* Mutant: the loop goes on after a successful parse (no break).
OnParsed_NoBreak(s, v) ==
  LET t == [s EXCEPT !.finalResult = v, !.parsedAt = s.modelIdx, !.parsed = v]
  IN  IF s.modelIdx < NumModels
      THEN IssueAttempt(t, s.modelIdx + 1, s.activeKey)
      ELSE AfterLoop(t)

\* finalResult = JSON.parse(text); break
OnParsed(s, v) ==
  AfterLoop([s EXCEPT !.finalResult = v, !.parsedAt = s.modelIdx, !.parsed = v])

\* Mutant: JSON.parse outside the try of the loop, its error ends the request.
OnResolved_ParseFatal(s, raw, key) ==
  LET t == [s EXCEPT !.lastRaw = raw]
  IN  IF JsonParses(CleanText(raw))
      THEN OnParsed(t, JsonParse(CleanText(raw)))
      ELSE RespondError(t, 500, <<"Unexpected token">>)

\* The attempt's continuation once generateContent resolved with raw text.
OnResolved(s, raw, key) ==
  LET t == [s EXCEPT !.lastRaw = raw]
  IN  IF JsonParses(CleanText(raw))
      THEN OnParsed(t, JsonParse(CleanText(raw)))
      ELSE OnAttemptFailed(t, "Unexpected token", key)

\* The attempt's continuation once the race rejected or text() threw.
OnThrown(s, msg, key) == OnAttemptFailed([s EXCEPT !.lastRaw = NoRaw], msg, key)

\* Mutant: the late text is parsed and taken as the result.
SettleAfterRace_Adopt(s, late) ==
  IF JsonParses(CleanText(late))
  THEN [s EXCEPT !.finalResult = JsonParse(CleanText(late))]
  ELSE s

\* Promise.race has settled with the timeout: a later settlement of
\* generateContent changes nothing of the request.
SettleAfterRace(s, late) == s

\* Mutant: a search without result fails the request.
OnVideo_FailRequest(s, videoUrl) ==
  IF videoUrl # ""
  THEN Respond([s EXCEPT !.finalResult.video_url = <<WatchUrl, videoUrl>>])
  ELSE RespondError(s, 500, <<"Video search failed">>)

\* finalResult.video_url = "https://www.youtube.com/watch?v=" + videoUrl
OnVideo(s, videoUrl) ==
  Respond(IF videoUrl # ""
          THEN [s EXCEPT !.finalResult.video_url = <<WatchUrl, videoUrl>>]
          ELSE s)

\* What searchYouTube returns for each outcome of the search.
searchYouTube(outcome) == IF outcome = "found" THEN "videoId-1" ELSE ""

SearchOutcomes(key) ==
  IF key THEN {"fetch throws", "no items", "found"} ELSE {"no api key"}

\* The handler up to its first await.
OnRequest(s, q, key) ==
  LET t == [s EXCEPT !.req = q]
  IN  IF Truthy(q.topic) /\ Len(q.topic) > MaxTopicLen
      THEN RespondError(t, 400, <<"Topic is too long (Max 500 chars)">>)
      ELSE IF HasFile(q) /\ q.fileData > MaxFileLen
      THEN RespondError(t, 400, <<"Image too large">>)
      ELSE IF q.level = Undefined \/ q.language = Undefined
      THEN RespondError(t, 500, <<"Cannot read properties of undefined">>)
      ELSE LET u == [t EXCEPT !.cacheKey = CacheKey(q)]
           IN  IF ~HasFile(q)
               THEN [u EXCEPT !.pc = "awaitSelect", !.reads = @ + 1]
               ELSE StartWaterfall(u, key)

\* Mutant: a select the store failed to answer ends the request.
OnSelected_LookupFatal(s, cached, key) ==
  IF s.lookupFailed THEN RespondError(s, 500, <<"fetch failed">>)
  ELSE IF cached.found
       THEN [s EXCEPT !.pc = "done", !.sent = @ + 1,
                      !.response = [status |-> 200, body |-> cached.content]]
       ELSE StartWaterfall(s, key)

\* Mutant: the row the select returned is ignored.
OnSelected_Regenerate(s, cached, key) == StartWaterfall(s, key)

\* Mutant: a hit goes through the video search like a fresh result.
OnSelected_EnrichHit(s, cached, key) ==
  IF cached.found
  THEN Enrich([s EXCEPT !.finalResult = cached.content])
  ELSE StartWaterfall(s, key)

\* After the select: a hit is returned, a miss starts the waterfall.
OnSelected(s, cached, key) ==
  IF cached.found
  THEN [s EXCEPT !.pc = "done", !.sent = @ + 1,
                 !.response = [status |-> 200, body |-> cached.content]]
  ELSE StartWaterfall(s, key)

\* A row of the cache table.
Row(key, content) == [topic_slug |-> key, content |-> content]

\* Mutant: a row is stored only when the table has none under its key.
StoreInsert_IfAbsent(rows, row) ==
  IF Matching(rows, row.topic_slug) = <<>> THEN Append(rows, row) ELSE rows

\* Mutant: the row takes the place of the rows under its key.
StoreInsert_Replace(rows, row) ==
  Append(SelectSeq(rows, LAMBDA old : old.topic_slug # row.topic_slug), row)

\* .insert({ topic_slug, content }): the table gets one more row.
StoreInsert(rows, row) == Append(rows, row)

\* Mutant: an insert the store refused ends the request.
OnInserted_CheckError(s, ok) ==
  IF ok THEN Enrich(s) ELSE RespondError(s, 500, <<"insert failed">>)

\* After the insert: its result is not looked at.
OnInserted(s, ok) == Enrich(s)

\* catch (error) of the handler, reached by a store call that raised.
OnStoreThrown(s, msg) == RespondError(s, 500, <<msg>>)

\* Tables that earlier requests can have left behind: empty, one row, two
\* rows under one key (two requests that both missed), a row for a quiz.
CacheInits ==
  { <<>>,
    <<Row(CacheKey(ReqLesson), LessonOK)>>,
    <<Row(CacheKey(ReqLesson), LessonOK), Row(CacheKey(ReqLesson), LessonVid)>>,
    <<Row(CacheKey(ReqQuiz), QuizOK)>> }

\* ----------------------------------------------------------------- actions
\* The process after start-up: the environment is read (either no provider
\* key or both, the video key set or not), the table holds what earlier
\* requests left, and one request is about to arrive in slot 1; the other
\* slots stay off.
Init ==
  /\ API_KEYS \in {<<>>, KeyEnv}
  /\ YOUTUBE_API_KEY \in BOOLEAN
  /\ topic_cache \in CacheInits
  /\ slot = [r \in Req |-> IF r = 1 THEN IdleSlot ELSE [IdleSlot EXCEPT !.pc = "off"]]
  /\ abandoned = [r \in Req |-> 0]
  /\ ui = UiInit

\* A request arrives.
Receive(r) ==
  /\ slot[r].pc = "idle"
  /\ \E q \in Requests, key \in getRandomKey(API_KEYS) :
       slot' = [slot EXCEPT ![r] = OnRequest(IdleSlot, q, key)]
  /\ UNCHANGED <<ui, API_KEYS, YOUTUBE_API_KEY, topic_cache, abandoned>>

\* The cache select returns: its data, or none when the store failed (the
\* client reports a failure in its result, it does not throw).
SelectReturns(r) ==
  /\ slot[r].pc = "awaitSelect"
  /\ \E up \in BOOLEAN, key \in getRandomKey(API_KEYS) :
       LET cached == IF up THEN SelectSingle(topic_cache, slot[r].cacheKey)
                     ELSE [found |-> FALSE, content |-> JNull]
       IN  slot' = [slot EXCEPT ![r] =
                      OnSelected([slot[r] EXCEPT
                                    !.hit = cached.found, !.lookupFailed = ~up,
                                    !.rowsSeen = Len(Matching(topic_cache, slot[r].cacheKey))],
                                 cached, key)]
  /\ UNCHANGED <<ui, API_KEYS, YOUTUBE_API_KEY, topic_cache, abandoned>>

\* generateContent rejects (network error, non-2xx) before the timeout.
AttemptRejects(r) ==
  /\ slot[r].pc = "awaitRace"
  /\ \E key \in getRandomKey(API_KEYS) :
       slot' = [slot EXCEPT ![r] =
                  OnThrown([slot[r] EXCEPT !.lastReason = "fetch failed"],
                           "fetch failed", key)]
  /\ UNCHANGED <<ui, API_KEYS, YOUTUBE_API_KEY, topic_cache, abandoned>>

\* The 10 s timer wins the race; the provider call stays outstanding.
AttemptTimesOut(r) ==
  /\ slot[r].pc = "awaitRace"
  /\ abandoned[r] < MaxAbandoned
  /\ \E key \in getRandomKey(API_KEYS) :
       slot' = [slot EXCEPT ![r] =
                  OnThrown([slot[r] EXCEPT !.lastReason = "Timeout"], "Timeout", key)]
  /\ abandoned' = [abandoned EXCEPT ![r] = @ + 1]
  /\ UNCHANGED <<ui, API_KEYS, YOUTUBE_API_KEY, topic_cache>>

\* generateContent resolves, but response.text() throws (blocked response).
\* The provider serves no call made with an undefined key.
AttemptTextThrows(r) ==
  /\ slot[r].pc = "awaitRace"
  /\ slot[r].activeKey # "undefined"
  /\ \E key \in getRandomKey(API_KEYS) :
       slot' = [slot EXCEPT ![r] =
                  OnThrown([slot[r] EXCEPT !.lastReason = "Response was blocked"],
                           "Response was blocked", key)]
  /\ UNCHANGED <<ui, API_KEYS, YOUTUBE_API_KEY, topic_cache, abandoned>>

\* generateContent resolves with text (an undefined key is never served).
AttemptResolves(r) ==
  /\ slot[r].pc = "awaitRace"
  /\ slot[r].activeKey # "undefined"
  /\ \E raw \in RawTexts, key \in getRandomKey(API_KEYS) :
       slot' = [slot EXCEPT ![r] =
                  OnResolved([slot[r] EXCEPT !.lastReason =
                                IF JsonParses(CleanText(raw)) THEN @
                                ELSE "Unexpected token"],
                             raw, key)]
  /\ UNCHANGED <<ui, API_KEYS, YOUTUBE_API_KEY, topic_cache, abandoned>>

\* An abandoned provider call settles, at any later time.
LateSettle(r) ==
  /\ abandoned[r] > 0
  /\ abandoned' = [abandoned EXCEPT ![r] = @ - 1]
  /\ \E raw \in RawTexts :
       slot' = [slot EXCEPT ![r] = SettleAfterRace(slot[r], raw)]
  /\ UNCHANGED <<ui, API_KEYS, YOUTUBE_API_KEY, topic_cache>>

\* The cache insert returns; its result is not looked at.  The row holds
\* finalResult as it was when the insert was sent.
InsertReturns(r) ==
  /\ slot[r].pc = "awaitInsert"
  /\ \E ok \in BOOLEAN :
       /\ topic_cache' = IF ok
                         THEN StoreInsert(topic_cache,
                                          Row(slot[r].cacheKey, slot[r].finalResult))
                         ELSE topic_cache
       /\ slot' = [slot EXCEPT ![r] = OnInserted([slot[r] EXCEPT !.inserted = ok], ok)]
  /\ UNCHANGED <<ui, API_KEYS, YOUTUBE_API_KEY, abandoned>>

\* searchYouTube returns (it catches its own errors).
VideoReturns(r) ==
  /\ slot[r].pc = "awaitVideo"
  /\ \E o \in SearchOutcomes(YOUTUBE_API_KEY) :
       slot' = [slot EXCEPT ![r] =
                  OnVideo([slot[r] EXCEPT !.searchOutcome = o], searchYouTube(o))]
  /\ UNCHANGED <<ui, API_KEYS, YOUTUBE_API_KEY, topic_cache, abandoned>>

Next ==
  \E r \in Req :
    \/ Receive(r)
    \/ SelectReturns(r)
    \/ AttemptRejects(r)
    \/ AttemptTimesOut(r)
    \/ AttemptTextThrows(r)
    \/ AttemptResolves(r)
    \/ LateSettle(r)
    \/ InsertReturns(r)
    \/ VideoReturns(r)

Spec == Init /\ [][Next]_vars

\* ------------------------------------------- a store client that can raise
\* The client the handler builds reports a failed call in its result.  With
\* a client that raises instead, the awaited call rejects inside the
\* handler's try and the outer catch answers.
SelectRaises(r) ==
  /\ slot[r].pc = "awaitSelect"
  /\ slot' = [slot EXCEPT ![r] =
                OnStoreThrown([slot[r] EXCEPT !.lookupFailed = TRUE, !.storeRaised = TRUE,
                                 !.rowsSeen = Len(Matching(topic_cache, slot[r].cacheKey))],
                              "fetch failed")]
  /\ UNCHANGED <<ui, API_KEYS, YOUTUBE_API_KEY, topic_cache, abandoned>>

InsertRaises(r) ==
  /\ slot[r].pc = "awaitInsert"
  /\ slot' = [slot EXCEPT ![r] =
                OnStoreThrown([slot[r] EXCEPT !.storeRaised = TRUE], "fetch failed")]
  /\ UNCHANGED <<ui, API_KEYS, YOUTUBE_API_KEY, topic_cache, abandoned>>

NextRaise ==
  \/ Next
  \/ \E r \in Req : SelectRaises(r) \/ InsertRaises(r)

SpecRaise == Init /\ [][NextRaise]_vars

\* ---------------------------------------------------- vocabulary of the claims
Range(f) == {f[i] : i \in DOMAIN f}
UpTo(k) == [i \in 1..k |-> i]
Live == {r \in Req : slot[r].pc # "off"}
Last(f) == f[Len(f)]

\* The text of the attempt that settled last decodes (after the fences are
\* stripped), and the value it decodes to.
Decodes(s) == s.lastRaw # NoRaw /\ JsonParses(CleanText(s.lastRaw))
Decoded(s) == JsonParse(CleanText(s.lastRaw))

\* The schema of a lesson: 4 options, the answer among them, 3 to 5 key points.
ValidLesson(v) ==
  /\ v.type = "lesson"
  /\ Len(v.options) = 4
  /\ v.correct_answer \in Range(v.options)
  /\ Len(v.key_points) \in 3..5

\* The schema of a quiz: 5 questions of 4 options, each answer among its options.
ValidQuiz(v) ==
  /\ v.type = "quiz"
  /\ Len(v.questions) = 5
  /\ \A i \in 1..Len(v.questions) :
       /\ Len(v.questions[i].options) = 4
       /\ v.questions[i].correct_answer \in Range(v.questions[i].options)

\* The schema the request's mode asks for (mode === "quiz", else lesson).
ValidFor(q, v) == IF q.mode = S_quiz THEN ValidQuiz(v) ELSE ValidLesson(v)

\* The result type the request's mode asks for.
TypeFor(q) == IF q.mode = S_quiz THEN "quiz" ELSE "lesson"

\* The response carries payload v, with at most the video reference of the
\* video search put in place of v's own.
Returns(s, v) ==
  /\ s.response.status = 200
  /\ \/ s.response.body = v
     \/ /\ v.type = "lesson"
        /\ s.searchOutcome = "found"
        /\ s.response.body = [v EXCEPT !.video_url = <<WatchUrl, searchYouTube("found")>>]

\* The error response of the exhausted waterfall.
IsExhaustedError(s) ==
  /\ s.response.status = 500
  /\ DOMAIN s.response.body = {"error"}
  /\ s.response.body.error[1] = "System busy. Please try again. "

\* ------------------------------------------------------------------ claims

\* C1: when candidates 1..k-1 have failed and candidate k's text decodes to a
\* payload valid for the request's mode, no generation call is ever issued to
\* a candidate after k, and the response, once sent, carries k's payload.
C1_FirstSuccessWins ==
  \A r \in Live :
    LET s == slot[r] IN
    (s.parsedAt # 0 /\ ValidFor(s.req, s.parsed) /\ s.failed = UpTo(s.parsedAt - 1))
      => /\ s.issued = UpTo(s.parsedAt)
         /\ s.pc = "done" => Returns(s, s.parsed)

\* C1 witness: candidates 1 and 2 failed, candidate 3 gave a valid payload,
\* and the response has been sent.
C1_Witness ==
  \E r \in Live :
    /\ slot[r].pc = "done"
    /\ slot[r].parsedAt = 3
    /\ slot[r].failed = <<1, 2>>
    /\ ValidFor(slot[r].req, slot[r].parsed)
    /\ slot[r].response.status = 200

\* C2: when every candidate of the list has failed, the request ends with
\* exactly one response, the exhausted-waterfall error, and it has sent no
\* insert to the cache (no row was stored for it).
C2_ExhaustedNoWrite ==
  \A r \in Live :
    LET s == slot[r] IN
    (s.pc = "done" /\ s.failed = UpTo(NumModels))
      => /\ IsExhaustedError(s)
         /\ s.sent = 1
         /\ s.writes = 0
         /\ ~s.inserted

\* C2 witness: all candidates failed and the error has been returned.
C2_Witness ==
  \E r \in Live :
    /\ slot[r].pc = "done"
    /\ slot[r].failed = UpTo(NumModels)
    /\ slot[r].response.status = 500

\* C3: a request with an attachment sends no select and no insert to the
\* cache, wherever it stands (success, all failed, video search).
C3_AttachmentBypassesCache ==
  \A r \in Live :
    LET s == slot[r] IN
    (s.pc # "idle" /\ s.req.fileData > 0)
      => /\ s.reads = 0
         /\ s.writes = 0
         /\ ~s.inserted
         /\ s.pc \notin {"awaitSelect", "awaitInsert"}

\* C3 witness: an upload was answered with a lesson after the video search.
C3_Witness ==
  \E r \in Live :
    /\ slot[r].pc = "done"
    /\ slot[r].req.fileData > 0
    /\ slot[r].response.status = 200
    /\ slot[r].searched

\* C4: a candidate whose text decodes to a result of the request's mode that
\* breaks the schema (answer not among the options, wrong list lengths) is a
\* failed attempt: the value is not taken as the result, not cached and not
\* returned.
C4_InvalidPayloadIsFailure ==
  \A r \in Live :
    LET s == slot[r] IN
    (Decodes(s) /\ Decoded(s).type = TypeFor(s.req) /\ ~ValidFor(s.req, Decoded(s)))
      => /\ s.finalResult # Decoded(s)
         /\ s.pc # "awaitInsert"
         /\ ~(s.pc = "done" /\ s.response.status = 200)

\* C5: an attempt whose text, fences stripped, does not decode is an ordinary
\* failure of the loop: the reason is recorded and the next candidate is
\* called; only after the last candidate does the request end, with the
\* exhausted-waterfall error carrying that reason.
C5_ParseFailureAdvances ==
  \A r \in Live :
    LET s == slot[r] IN
    (s.lastRaw # NoRaw /\ ~JsonParses(CleanText(s.lastRaw)))
      => /\ s.failed # <<>>
         /\ s.lastError = "Unexpected token"
         /\ IF Last(s.failed) < NumModels
            THEN /\ s.pc = "awaitRace"
                 /\ s.modelIdx = Last(s.failed) + 1
                 /\ Last(s.issued) = Last(s.failed) + 1
            ELSE /\ s.pc = "done"
                 /\ IsExhaustedError(s)
                 /\ s.response.body.error[2] = "Unexpected token"

\* C5 witness: candidate 1 returned fenced text that does not decode and
\* candidate 2 is being called.
C5_Witness ==
  \E r \in Live :
    /\ slot[r].lastRaw = <<FenceJson, Junk, Ws, J(LessonOK), Fence>>
    /\ slot[r].failed = <<1>>
    /\ slot[r].pc = "awaitRace"
    /\ slot[r].modelIdx = 2

\* C6: every quiz returned as the success response to a quiz request,
\* generated or from the cache, has 5 questions of 4 options each, every
\* answer among its options.
C6_QuizShape ==
  \A r \in Live :
    LET s == slot[r] IN
    (s.pc = "done" /\ s.response.status = 200 /\ s.req.mode = S_quiz
       /\ s.response.body.type = "quiz")
      => ValidQuiz(s.response.body)

\* C7: every lesson returned as the success response to a lesson request,
\* generated or from the cache, has 4 options, the answer among them, and
\* 3 to 5 key points.
C7_LessonShape ==
  \A r \in Live :
    LET s == slot[r] IN
    (s.pc = "done" /\ s.response.status = 200 /\ s.req.mode # S_quiz
       /\ s.response.body.type = "lesson")
      => ValidLesson(s.response.body)

\* The first characters of the key of the example request.
ExampleKeyPrefix ==
  <<"p","h","o","t","o","s","y","n","t","h","e","s","i","s","-",
    "b","e","g","i","n","n","e","r","-","e","n","g","l","i","s","h","-",
    "l","e","s","s","o","n","-">>

HasPrefix(t, pre) == Len(t) >= Len(pre) /\ SubSeq(t, 1, Len(pre)) = pre

\* C8: when the first attempt timed out and the second candidate returned a
\* valid lesson, the response carries the second candidate's lesson and, for
\* a request without attachment, one insert was sent: once the store has
\* taken it, a row with that lesson stands under the request's key, which for
\* the example request begins photosynthesis-beginner-english-lesson-.
C8_TimeoutThenSecondCandidate ==
  \A r \in Live :
    LET s == slot[r] IN
    (s.pc = "done" /\ s.failed = <<1>> /\ s.lastError = "Timeout"
       /\ s.parsedAt = 2 /\ ValidLesson(s.parsed))
      => /\ Returns(s, s.parsed)
         /\ s.req.fileData <= 0 =>
              /\ s.writes = 1
              /\ s.inserted =>
                   \E i \in 1..Len(topic_cache) :
                     /\ topic_cache[i].content = s.parsed
                     /\ topic_cache[i].topic_slug = CacheKey(s.req)
                     /\ s.req = ReqLesson =>
                          HasPrefix(topic_cache[i].topic_slug, ExampleKeyPrefix)

\* C8 witness: the example request, first attempt timed out, second
\* candidate's lesson returned and stored.
C8_Witness ==
  \E r \in Live :
    /\ slot[r].pc = "done"
    /\ slot[r].req = ReqLesson
    /\ slot[r].failed = <<1>>
    /\ slot[r].lastError = "Timeout"
    /\ slot[r].parsedAt = 2
    /\ ValidLesson(slot[r].parsed)
    /\ slot[r].inserted
    /\ slot[r].response.status = 200

\* C9: the settlement of a provider call that lost the race changes nothing
\* of its request (result, response, position) and nothing of the cache.
C9_AbandonedCallDiscarded ==
  [][\A r \in Req :
       abandoned'[r] < abandoned[r]
         => /\ slot'[r] = slot[r]
            /\ topic_cache' = topic_cache]_vars

\* C9 witness: the first attempt timed out, the second candidate's result
\* was returned, and the abandoned first call has settled since.
C9_Witness ==
  \E r \in Live :
    /\ slot[r].pc = "done"
    /\ slot[r].failed = <<1>>
    /\ slot[r].lastError = "Timeout"
    /\ slot[r].parsedAt = 2
    /\ slot[r].response.status = 200
    /\ abandoned[r] = 0

\* The video search was called and found nothing (error, no key, no items).
SearchFailed(s) ==
  s.searched /\ s.searchOutcome \in {"fetch throws", "no items", "no api key"}

\* C10 as stated: after a failed video search for a valid lesson the response
\* is a success and is the lesson without any video reference.
C10_NoVideoReference ==
  \A r \in Live :
    LET s == slot[r] IN
    (s.pc = "done" /\ SearchFailed(s) /\ ValidLesson(s.parsed))
      => /\ s.response.status = 200
         /\ s.response.body = [s.parsed EXCEPT !.video_url = <<>>]

\* C10 amended: after a failed video search the one response is a success
\* and is exactly the parsed lesson: the search adds nothing, and a video_url
\* the provider's payload carried stays in it.
C10_SearchFailureKeepsLesson ==
  \A r \in Live :
    LET s == slot[r] IN
    (s.pc = "done" /\ SearchFailed(s))
      => /\ s.response.status = 200
         /\ s.sent = 1
         /\ s.response.body = s.parsed

\* C10 witness: the search threw for a valid lesson and the lesson was returned.
C10_Witness ==
  \E r \in Live :
    /\ slot[r].pc = "done"
    /\ slot[r].searchOutcome = "fetch throws"
    /\ ValidLesson(slot[r].parsed)
    /\ slot[r].response.status = 200

\* ------------------------------------------------ the key builder on its own
\* Bodies without attachment whose fields differ in case, in surrounding and
\* internal whitespace, and in an absent knob against its default token.
S_ex == <<"e","x">>
S_en == <<"e","n">>
KeyTopics    == { Undefined, <<" ","A"," ","\t","b"," ">>, <<"a","-","b">> }
KeyLevels    == { S_ex, <<"E","x">>, <<" ","e","x">> }
KeyLanguages == { S_en, <<"E","N">> }
KeyModes     == { Undefined, S_lesson }
KeyStyles    == { Undefined, S_default }
KeyComplexities == { Undefined, S_medium }
KeyFormats   == { Undefined, S_paragraph }

KeyRequests ==
  [topic : KeyTopics, level : KeyLevels, language : KeyLanguages,
   mode : KeyModes, fileData : {NoFile}, explanationStyle : KeyStyles,
   complexity : KeyComplexities, format : KeyFormats]

\* Two bodies have arrived and passed the validation; no key is built yet.
InitKey ==
  /\ API_KEYS = KeyEnv
  /\ YOUTUBE_API_KEY = FALSE
  /\ topic_cache = <<>>
  /\ abandoned = [r \in Req |-> 0]
  /\ ui = UiInit
  /\ \E q1 \in KeyRequests, q2 \in KeyRequests :
       slot = [r \in Req |->
                 IF r = 1 THEN [IdleSlot EXCEPT !.pc = "key", !.req = q1]
                 ELSE IF r = 2 THEN [IdleSlot EXCEPT !.pc = "key", !.req = q2]
                 ELSE [IdleSlot EXCEPT !.pc = "off"]]

\* const cleanTopic = ...; const cacheKey = ...
BuildKey(r) ==
  /\ slot[r].pc = "key"
  /\ slot' = [slot EXCEPT ![r] = [slot[r] EXCEPT !.pc = "keyed",
                                   !.cacheKey = CacheKey(slot[r].req)]]
  /\ UNCHANGED <<ui, API_KEYS, YOUTUBE_API_KEY, topic_cache, abandoned>>

NextKey == \E r \in Req : BuildKey(r)

SpecKey == InitKey /\ [][NextKey]_vars

\* The slots whose key is built.
Keyed == {r \in Req : slot[r].pc = "keyed"}

\* The normalized fields of a body: the topic trimmed, lower-cased and its
\* whitespace runs collapsed (a body without topic counts as an upload), the
\* level and the language lower-cased, and each knob or its default token.
NormTopic(q) ==
  IF Truthy(q.topic) THEN ReplaceWs(ToLowerCase(Trim(q.topic))) ELSE S_uploaded_file
Normalized(q) ==
  << NormTopic(q), ToLowerCase(q.level), ToLowerCase(q.language),
     OrDefault(q.mode, S_lesson), OrDefault(q.explanationStyle, S_default),
     OrDefault(q.complexity, S_medium), OrDefault(q.format, S_paragraph) >>

StatedNormalized(q) ==
  << NormTopic(q), ToLowerCase(Trim(q.level)), ToLowerCase(Trim(q.language)),
     OrDefault(q.mode, S_lesson),
     ToLowerCase(Trim(OrDefault(q.explanationStyle, S_default))),
     ToLowerCase(Trim(OrDefault(q.complexity, S_medium))),
     ToLowerCase(Trim(OrDefault(q.format, S_paragraph))) >>

UpperChar(c) ==
  IF \E i \in 1..Len(LowerChars) : LowerChars[i] = c
  THEN UpperChars[CHOOSE i \in 1..Len(LowerChars) : LowerChars[i] = c]
  ELSE c
ToUpperCase(s) == [i \in 1..Len(s) |-> UpperChar(s[i])]

\* s with every whitespace character doubled.
RECURSIVE WidenWs(_)
WidenWs(s) ==
  IF s = <<>> THEN <<>>
  ELSE IF Head(s) \in WhiteSpace
       THEN <<Head(s), Head(s)>> \o WidenWs(Tail(s))
       ELSE <<Head(s)>> \o WidenWs(Tail(s))

\* The bodies that differ from q in one respect the key ignores: the letter
\* case of topic, level or language, whitespace around the topic, more
\* whitespace inside the topic, or a default token sent for an absent knob.
Variants(q) ==
  { [q EXCEPT !.level = ToUpperCase(@)], [q EXCEPT !.language = ToUpperCase(@)] }
  \cup (IF Truthy(q.topic)
        THEN { [q EXCEPT !.topic = ToUpperCase(@)],
               [q EXCEPT !.topic = <<" ">> \o @ \o <<"\n">>],
               [q EXCEPT !.topic = WidenWs(@)] }
        ELSE {})
  \cup (IF q.mode = Undefined THEN {[q EXCEPT !.mode = S_lesson]} ELSE {})
  \cup (IF q.explanationStyle = Undefined
        THEN {[q EXCEPT !.explanationStyle = S_default]} ELSE {})
  \cup (IF q.complexity = Undefined
        THEN {[q EXCEPT !.complexity = S_medium]} ELSE {})
  \cup (IF q.format = Undefined
        THEN {[q EXCEPT !.format = S_paragraph]} ELSE {})

C13_CacheHitFrame ==
  \A r \in Live :
    LET s == slot[r] IN
    /\ s.hit =>
         /\ ~HasFile(s.req)
         /\ s.pc = "done" /\ s.sent = 1 /\ s.response.status = 200
         /\ \E i \in DOMAIN topic_cache :
              topic_cache[i] = Row(s.cacheKey, s.response.body)
         /\ s.issued = <<>> /\ s.writes = 0 /\ ~s.searched
    /\ s.parsedAt # 0 =>
         /\ ~s.hit
         /\ ~HasFile(s.req) => s.reads = 1
         /\ TruthyVal(s.parsed) => s.writes = (IF HasFile(s.req) THEN 0 ELSE 1)

\* A request was answered from the row an earlier request had stored.
C13_Witness ==
  \E r \in Live :
    /\ slot[r].hit /\ slot[r].pc = "done"
    /\ slot[r].req = ReqLesson
    /\ slot[r].response = [status |-> 200, body |-> LessonOK]
    /\ slot[r].issued = <<>>

\* The provider calls of a request that the handler still waits for: issued,
\* and neither failed (rejected, timed out, unreadable) nor parsed.
Outstanding(s) ==
  {i \in Range(s.issued) : i \notin Range(s.failed) /\ i # s.parsedAt}

\* C14: within one request the waterfall is strictly sequential: when the
\* call to a candidate is issued, the call to the candidate before it has
\* failed or timed out, so the handler waits for at most one provider call,
\* the one of the current candidate.
C14_OneCallAtATime ==
  \A r \in Live :
    LET s == slot[r] IN
    /\ Cardinality(Outstanding(s)) <= 1
    /\ Outstanding(s) # {} => s.pc = "awaitRace" /\ Outstanding(s) = {s.modelIdx}
    /\ s.pc = "awaitRace" => Outstanding(s) = {s.modelIdx}
    /\ \A k \in 2..Len(s.issued) : s.issued[k - 1] \in Range(s.failed)

\* Candidate 1 timed out and its call still runs, abandoned; candidate 2's
\* call is the one the handler waits for.
C14_Witness ==
  \E r \in Live :
    /\ slot[r].pc = "awaitRace"
    /\ slot[r].issued = <<1, 2>> /\ slot[r].failed = <<1>>
    /\ slot[r].lastReason = "Timeout" /\ abandoned[r] = 1
    /\ Outstanding(slot[r]) = {2}

C16_NoIdentifierTwice ==
  \A r \in Live :
    \A i \in DOMAIN slot[r].issued, j \in DOMAIN slot[r].issued :
      i # j => MODELS_TO_TRY[slot[r].issued[i]] # MODELS_TO_TRY[slot[r].issued[j]]

\* ------------------------------------- the route version that skips Gemma
\* The older POST handler: one provider key, a key of topic, level and
\* language, and a loop that passes over the Gemma models when a file is
\* attached.  Model names are sequences of characters, for includes().
MODELS_TO_TRY_Old ==
  << <<"g","e","m","i","n","i","-","3","-","f","l","a","s","h","-","p","r","e","v","i","e","w">>,
     <<"g","e","m","i","n","i","-","2",".","5","-","f","l","a","s","h">>,
     <<"g","e","m","i","n","i","-","2",".","5","-","f","l","a","s","h","-","l","i","t","e">>,
     <<"g","e","m","m","a","-","3","-","2","7","b">>,
     <<"g","e","m","m","a","-","3","-","1","2","b">>,
     <<"g","e","m","m","a","-","3","-","4","b">>,
     <<"g","e","m","m","a","-","3","-","2","b">>,
     <<"g","e","m","m","a","-","3","-","1","b">>,
     <<"g","e","m","i","n","i","-","r","o","b","o","t","i","c","s","-","e","r","-","1",".","5","-","p","r","e","v","i","e","w">>,
     <<"g","e","m","i","n","i","-","1",".","5","-","f","l","a","s","h">> >>

NumModelsOld == Len(MODELS_TO_TRY_Old)

S_gemma == <<"g","e","m","m","a">>

\* String.prototype.includes
Includes(s, sub) ==
  \E i \in 0..(Len(s) - Len(sub)) : SubSeq(s, i + 1, i + Len(sub)) = sub

\* const cacheKey of the older handler.
CacheKeyOld(q) ==
  ReplaceWs(CleanTopic(q.topic)) \o Hyphen \o
  ToLowerCase(q.level) \o Hyphen \o ToLowerCase(q.language)

\* if (fileData && modelName.includes("gemma")) continue
SkipsOld(q, i) == HasFile(q) /\ Includes(MODELS_TO_TRY_Old[i], S_gemma)

\* After the loop: throw when nothing was parsed, else insert (no file)
\* or return.
AfterLoopOld(s) ==
  IF ~TruthyVal(s.finalResult)
  THEN RespondError(s, 500, <<"All AI models are busy. Please try again.">>)
  ELSE IF ~HasFile(s.req)
       THEN [s EXCEPT !.pc = "awaitInsert", !.writes = @ + 1]
       ELSE Respond(s)

\* Mutant: the loop passes over no candidate.
AdvanceOld_NoSkip(s, i) ==
  IF i > NumModelsOld THEN AfterLoopOld(s)
  ELSE [s EXCEPT !.pc = "awaitRace", !.modelIdx = i, !.issued = Append(@, i)]

\* The loop from position i on: the candidates it passes over are recorded
\* in skipped, the first other one is called.
RECURSIVE AdvanceOld(_, _)
AdvanceOld(s, i) ==
  IF i > NumModelsOld THEN AfterLoopOld(s)
  ELSE IF SkipsOld(s.req, i)
       THEN AdvanceOld([s EXCEPT !.skipped = Append(@, i)], i + 1)
       ELSE [s EXCEPT !.pc = "awaitRace", !.modelIdx = i, !.issued = Append(@, i)]

\* catch (error) { console.warn(...) } and the next iteration.
OnAttemptFailedOld(s) ==
  AdvanceOld([s EXCEPT !.failed = Append(@, s.modelIdx)], s.modelIdx + 1)

\* The attempt's continuation once generateContent resolved with raw text.
OnResolvedOld(s, raw) ==
  LET t == [s EXCEPT !.lastRaw = raw]
  IN  IF JsonParses(CleanText(raw))
      THEN AfterLoopOld([t EXCEPT !.finalResult = JsonParse(CleanText(raw)),
                                  !.parsedAt = s.modelIdx,
                                  !.parsed = JsonParse(CleanText(raw))])
      ELSE OnAttemptFailedOld(t)

\* The handler up to its first await.
OnRequestOld(s, q) ==
  LET t == [s EXCEPT !.req = q]
  IN  IF q.level = Undefined \/ q.language = Undefined
      THEN RespondError(t, 500, <<"Cannot read properties of undefined">>)
      ELSE LET u == [t EXCEPT !.cacheKey = CacheKeyOld(q)]
           IN  IF ~HasFile(q)
               THEN [u EXCEPT !.pc = "awaitSelect", !.reads = @ + 1]
               ELSE AdvanceOld(u, 1)

\* After the select: a hit is returned, a miss starts the loop.
OnSelectedOld(s, cached) ==
  IF cached.found
  THEN [s EXCEPT !.pc = "done", !.sent = @ + 1,
                 !.response = [status |-> 200, body |-> cached.content]]
  ELSE AdvanceOld(s, 1)

\* A file sent together with a topic.
ReqTopicFile == [ReqLesson EXCEPT !.fileData = 2048]

RequestsOld == {ReqLesson, ReqFile, ReqTopicFile, ReqNoLevel}

InitOld ==
  /\ API_KEYS \in {<<>>, <<"GOOGLE_API_KEY">>}
  /\ YOUTUBE_API_KEY = FALSE
  /\ topic_cache \in {<<>>, <<Row(CacheKeyOld(ReqLesson), LessonOK)>>}
  /\ slot = [r \in Req |-> IF r = 1 THEN IdleSlot ELSE [IdleSlot EXCEPT !.pc = "off"]]
  /\ abandoned = [r \in Req |-> 0]
  /\ ui = UiInit

ReceiveOld(r) ==
  /\ slot[r].pc = "idle"
  /\ \E q \in RequestsOld : slot' = [slot EXCEPT ![r] = OnRequestOld(IdleSlot, q)]
  /\ UNCHANGED <<ui, API_KEYS, YOUTUBE_API_KEY, topic_cache, abandoned>>

SelectReturnsOld(r) ==
  /\ slot[r].pc = "awaitSelect"
  /\ \E up \in BOOLEAN :
       LET cached == IF up THEN SelectSingle(topic_cache, slot[r].cacheKey)
                     ELSE [found |-> FALSE, content |-> JNull]
       IN  slot' = [slot EXCEPT ![r] =
                      OnSelectedOld([slot[r] EXCEPT !.hit = cached.found], cached)]
  /\ UNCHANGED <<ui, API_KEYS, YOUTUBE_API_KEY, topic_cache, abandoned>>

\* generateContent rejects, or response.text() throws.
AttemptRejectsOld(r) ==
  /\ slot[r].pc = "awaitRace"
  /\ slot' = [slot EXCEPT ![r] =
                OnAttemptFailedOld([slot[r] EXCEPT !.lastRaw = NoRaw,
                                                   !.lastReason = "fetch failed"])]
  /\ UNCHANGED <<ui, API_KEYS, YOUTUBE_API_KEY, topic_cache, abandoned>>

\* The 10 s timer wins the race; the provider call stays outstanding.
AttemptTimesOutOld(r) ==
  /\ slot[r].pc = "awaitRace"
  /\ abandoned[r] < MaxAbandoned
  /\ slot' = [slot EXCEPT ![r] =
                OnAttemptFailedOld([slot[r] EXCEPT !.lastRaw = NoRaw,
                                                   !.lastReason = "Timeout"])]
  /\ abandoned' = [abandoned EXCEPT ![r] = @ + 1]
  /\ UNCHANGED <<ui, API_KEYS, YOUTUBE_API_KEY, topic_cache>>

\* generateContent resolves with text (not without a provider key).
AttemptResolvesOld(r) ==
  /\ slot[r].pc = "awaitRace"
  /\ API_KEYS # <<>>
  /\ \E raw \in RawTexts :
       slot' = [slot EXCEPT ![r] =
                  OnResolvedOld([slot[r] EXCEPT !.lastReason =
                                   IF JsonParses(CleanText(raw)) THEN @
                                   ELSE "Unexpected token"], raw)]
  /\ UNCHANGED <<ui, API_KEYS, YOUTUBE_API_KEY, topic_cache, abandoned>>

\* An abandoned provider call settles, at any later time.
LateSettleOld(r) ==
  /\ abandoned[r] > 0
  /\ abandoned' = [abandoned EXCEPT ![r] = @ - 1]
  /\ \E raw \in RawTexts :
       slot' = [slot EXCEPT ![r] = SettleAfterRace(slot[r], raw)]
  /\ UNCHANGED <<ui, API_KEYS, YOUTUBE_API_KEY, topic_cache>>

\* The cache insert returns; its result is not looked at.
InsertReturnsOld(r) ==
  /\ slot[r].pc = "awaitInsert"
  /\ \E ok \in BOOLEAN :
       /\ topic_cache' = IF ok
                         THEN Append(topic_cache,
                                     Row(slot[r].cacheKey, slot[r].finalResult))
                         ELSE topic_cache
       /\ slot' = [slot EXCEPT ![r] = Respond([slot[r] EXCEPT !.inserted = ok])]
  /\ UNCHANGED <<ui, API_KEYS, YOUTUBE_API_KEY, abandoned>>

NextOld ==
  \E r \in Req :
    \/ ReceiveOld(r)
    \/ SelectReturnsOld(r)
    \/ AttemptRejectsOld(r)
    \/ AttemptTimesOutOld(r)
    \/ AttemptResolvesOld(r)
    \/ LateSettleOld(r)
    \/ InsertReturnsOld(r)

SpecOld == InitOld /\ [][NextOld]_vars

\* The candidates that take no attachment: the Gemma models.
NoAttachments == {i \in 1..NumModelsOld : Includes(MODELS_TO_TRY_Old[i], S_gemma)}

\* The list positions the loop of a request has gone through.
Visited(s) == Range(s.issued) \cup Range(s.skipped)

\* C17: when the request carries an attachment, every candidate that takes
\* no attachment is passed over: no generation call is issued for it, and
\* the loop goes on to the next candidate; without attachment no candidate
\* is passed over.
C17_SkipsOnAttachment ==
  \A r \in Live :
    LET s == slot[r] IN
    /\ Visited(s) = 1..Cardinality(Visited(s))
    /\ Range(s.issued) \cap Range(s.skipped) = {}
    /\ HasFile(s.req) => Range(s.skipped) = Visited(s) \cap NoAttachments
    /\ ~HasFile(s.req) => s.skipped = <<>>
    /\ (s.pc = "done" /\ s.issued # <<>> /\ s.parsedAt = 0 /\ s.response.status = 500)
       => Visited(s) = 1..NumModelsOld

\* An upload for which the three Gemini models before the Gemma series
\* failed: the Gemma models (positions 4 to 8) were passed over without a
\* call, and the call after the third goes to position 9.
C17_Witness ==
  \E r \in Live :
    /\ HasFile(slot[r].req)
    /\ slot[r].pc = "awaitRace" /\ slot[r].modelIdx = 9
    /\ slot[r].issued = <<1, 2, 3, 9>>
    /\ slot[r].failed = <<1, 2, 3>>
    /\ slot[r].skipped = <<4, 5, 6, 7, 8>>
    /\ slot[r].activeKey = "none"

\* C18: when no credential is configured, the request fails with a
\* configuration error before any generation attempt: no candidate is
\* iterated and no provider call is made.
C18_EmptyPoolFailsFirst ==
  API_KEYS = <<>> =>
    \A r \in Live :
      /\ slot[r].issued = <<>> /\ slot[r].failed = <<>>
      /\ slot[r].pc \notin {"idle", "awaitSelect"} =>
           slot[r].pc = "done" /\ slot[r].response.status >= 400

\* The request went through the waterfall: the select found no row, or the
\* request carries an attachment, and the first candidate was called.
EnteredWaterfall(s) == s.issued # <<>>

\* C19: a request that missed the cache ends in an error response only when
\* every candidate has been attempted and has failed.
C19_ErrorOnlyWhenExhausted ==
  \A r \in Live :
    LET s == slot[r] IN
    (s.pc = "done" /\ EnteredWaterfall(s) /\ s.response.status >= 400)
    => Range(s.failed) = 1..NumModels

\* C20: when every candidate has failed, the error response carries the
\* failure reason of the attempt that failed last.
C20_LastFailureReason ==
  \A r \in Live :
    LET s == slot[r] IN
    (s.pc = "done" /\ Range(s.failed) = 1..NumModels)
    => /\ IsExhaustedError(s)
       /\ s.response.body.error = <<"System busy. Please try again. ", s.lastReason>>

\* All candidates failed, an earlier one by timeout and the last one with a
\* text that does not parse; the response names the parse error.
C20_Witness ==
  \E r \in Live :
    /\ slot[r].pc = "done" /\ Range(slot[r].failed) = 1..NumModels
    /\ abandoned[r] = 1
    /\ slot[r].lastRaw = <<>>
    /\ slot[r].lastReason = "Unexpected token"
    /\ slot[r].response.body.error[2] = "Unexpected token"

\* C21: a cache lookup that the store failed to answer is treated like an
\* absent entry: the waterfall starts at the first candidate, and the request
\* ends as a request that missed does, with the generated result or with the
\* error of the exhausted waterfall, never with an error of the lookup.
C21_LookupFailureIsMiss ==
  \A r \in Live :
    LET s == slot[r] IN
    s.lookupFailed =>
      /\ ~s.hit /\ s.reads = 1
      /\ s.issued # <<>> /\ s.issued[1] = 1
      /\ s.pc = "done" =>
           \/ s.response.status = 200 /\ s.parsedAt # 0
                /\ Returns(s, s.parsed)
           \/ s.response.status = 500 /\ IsExhaustedError(s)

\* The store did not answer the select although it holds the row; the first
\* candidate's lesson was returned with status 200.
C21_Witness ==
  \E r \in Live :
    /\ slot[r].lookupFailed /\ slot[r].rowsSeen = 1
    /\ slot[r].pc = "done" /\ slot[r].parsedAt = 1
    /\ slot[r].response.status = 200
    /\ slot[r].parsed = LessonOK

\* The insert of a request was sent and stored no row: the store returned an
\* error for it, or the call raised.
InsertFailed(s) == s.writes = 1 /\ s.pc # "awaitInsert" /\ ~s.inserted

C23_DuplicatesStillHit ==
  \A r \in Live :
    LET s == slot[r] IN
    (s.reads = 1 /\ s.pc # "awaitSelect" /\ ~s.lookupFailed /\ s.rowsSeen >= 1)
    => /\ s.hit
       /\ s.response = [status |-> 200,
                        body |-> Matching(topic_cache, s.cacheKey)[1].content]

\* ------------------------------------------------- two requests in flight
\* Two requests for the same key overlap in time, in any interleaving of
\* their awaits.  The provider fails on the first candidate at most and
\* answers with one of two lessons; the table starts empty.
TwoTexts == { <<J(LessonOK)>>, <<FenceJson, Ws, J(LessonVid), Ws, Fence>> }

InitTwo ==
  /\ API_KEYS = KeyEnv
  /\ YOUTUBE_API_KEY = FALSE
  /\ topic_cache = <<>>
  /\ slot = [r \in Req |-> IF r <= 2 THEN IdleSlot ELSE [IdleSlot EXCEPT !.pc = "off"]]
  /\ abandoned = [r \in Req |-> 0]
  /\ ui = UiInit

ReceiveTwo(r) == Receive(r) /\ slot'[r].req = ReqLesson

AttemptRejectsTwo(r) == slot[r].modelIdx = 1 /\ AttemptRejects(r)

AttemptTimesOutTwo(r) == slot[r].modelIdx = 1 /\ AttemptTimesOut(r)

AttemptTextThrowsTwo(r) == slot[r].modelIdx = 1 /\ AttemptTextThrows(r)

AttemptResolvesTwo(r) == AttemptResolves(r) /\ slot'[r].lastRaw \in TwoTexts

NextTwo ==
  \E r \in Req :
    \/ ReceiveTwo(r)
    \/ SelectReturns(r)
    \/ AttemptRejectsTwo(r)
    \/ AttemptTimesOutTwo(r)
    \/ AttemptTextThrowsTwo(r)
    \/ AttemptResolvesTwo(r)
    \/ LateSettle(r)
    \/ InsertReturns(r)
    \/ VideoReturns(r)

SpecTwo == InitTwo /\ [][NextTwo]_vars

\* C24: nothing keeps two requests for one key apart: every insert the store
\* accepts adds a row of its own, with the result of the request that sent
\* it, whatever rows the key already has, and a request whose waterfall
\* produced a result is answered with it whatever the other request did.
C24_NoMutualExclusion ==
  /\ Len(topic_cache) = Cardinality({r \in Live : slot[r].inserted})
  /\ \A r \in Live :
       LET s == slot[r] IN
       /\ s.inserted =>
            \E i \in DOMAIN topic_cache : topic_cache[i] = Row(s.cacheKey, s.parsed)
       /\ (s.pc = "done" /\ s.parsedAt # 0) => Returns(s, s.parsed)

\* Both requests looked the key up while the table had no row for it, both
\* ran the waterfall, both inserts were stored and both got status 200: the
\* table holds two rows under the one key.
C24_Witness ==
  /\ \A r \in {1, 2} :
       /\ slot[r].pc = "done" /\ slot[r].response.status = 200
       /\ slot[r].reads = 1 /\ ~slot[r].hit /\ ~slot[r].lookupFailed
       /\ slot[r].rowsSeen = 0
       /\ slot[r].parsedAt # 0 /\ slot[r].inserted
  /\ slot[1].cacheKey = slot[2].cacheKey
  /\ Len(topic_cache) = 2
  /\ topic_cache[1].topic_slug = slot[1].cacheKey
  /\ topic_cache[2].topic_slug = slot[1].cacheKey


\* C25: the table is append-only for the handler: a step leaves every row
\* at its place with its key and content, so a row of one state is a row of
\* every later state; a step adds one row at most, and the row it adds is
\* the insert of a request without attachment whose waterfall produced a
\* result, holding that request's key and that result.
C25_AppendOnly ==
  [][ /\ Len(topic_cache') >= Len(topic_cache)
      /\ Len(topic_cache') <= Len(topic_cache) + 1
      /\ \A i \in DOMAIN topic_cache : topic_cache'[i] = topic_cache[i]
      /\ Len(topic_cache') = Len(topic_cache) + 1 =>
           \E r \in Live :
             /\ slot[r].pc = "awaitInsert" /\ slot'[r].inserted
             /\ ~HasFile(slot[r].req)
             /\ slot[r].parsedAt # 0 /\ slot[r].parsedAt = Last(slot[r].issued)
             /\ TruthyVal(slot[r].parsed)
             /\ Last(topic_cache') = Row(slot[r].cacheKey, slot[r].parsed)
    ]_vars

\* The store failed to answer the lookup of a key it holds a row for; the
\* request generated a lesson and its insert was stored behind the old row,
\* which is still there with its content.
C25_Witness ==
  \E r \in Live :
    /\ slot[r].lookupFailed /\ slot[r].inserted /\ slot[r].pc = "done"
    /\ Len(topic_cache) = 2
    /\ topic_cache[1] = Row(slot[r].cacheKey, LessonOK)
    /\ topic_cache[2] = Row(slot[r].cacheKey, LessonVid)
    /\ slot[r].parsed = LessonVid


\* C26: a request accesses the cache table twice at most: one select at
\* most, sent before any provider call of the request, and one insert at
\* most, sent after the waterfall produced a result; while the request is
\* in the waterfall no store call is sent or pending.
C26_StoreAccessedAtMostTwice ==
  [][ \A r \in Live :
        LET s == slot[r]
            t == slot'[r]
        IN  /\ t.reads <= 1 /\ t.writes <= 1
            /\ t.reads # s.reads =>
                 /\ s.issued = <<>> /\ t.issued = <<>>
                 /\ t.pc = "awaitSelect" /\ t.writes = 0
            /\ t.writes # s.writes =>
                 /\ t.parsedAt # 0 /\ t.issued = s.issued
                 /\ TruthyVal(t.finalResult)
                 /\ s.pc = "awaitRace" /\ t.pc = "awaitInsert"
            /\ t.pc = "awaitSelect" => t.reads = 1 /\ t.issued = <<>>
            /\ t.pc = "awaitInsert" => t.writes = 1
            /\ t.pc = "awaitRace" => t.writes = 0
    ]_vars

\* A request that did both: one select, three provider calls, one insert.
C26_Witness ==
  \E r \in Live :
    /\ slot[r].pc = "done" /\ slot[r].reads = 1 /\ slot[r].writes = 1
    /\ slot[r].issued = <<1, 2, 3>> /\ slot[r].parsedAt = 3
    /\ slot[r].response.status = 200


\* C27: the video search is called only for a request that generated a
\* lesson, and only after the cache-write step of that request; it is never
\* called for a quiz-mode request, for a cache hit or for a request that
\* ends in an error.
C27_EnrichmentOnlyForLesson ==
  \A r \in Live :
    LET s == slot[r] IN
    s.searched =>
      /\ s.parsedAt # 0 /\ s.parsed.type = "lesson"
      /\ ~HasFile(s.req) => s.writes = 1 /\ s.pc # "awaitInsert"
      /\ s.req.mode # S_quiz
      /\ ~s.hit
      /\ s.pc = "done" => s.response.status = 200


\* The fields a lesson or a quiz is made of.
ContentFields ==
  {"type", "title", "explanation", "analogy", "key_points", "quiz_question",
   "options", "correct_answer", "video_url", "questions"}

\* C28: a request gets one response at most, and a finished request exactly
\* one; the response of a failing request is an error message and nothing
\* else, and no response carries an error message together with lesson or
\* quiz content.
C28_OneErrorShape ==
  \A r \in Live :
    LET s == slot[r] IN
    /\ s.sent <= 1
    /\ s.pc = "done" <=> s.sent = 1
    /\ s.sent = 0 => s.response = NoResponse
    /\ s.sent = 1 =>
         /\ s.response.status \in {200, 400, 500}
         /\ s.response.status >= 400 =>
              /\ DOMAIN s.response.body = {"error"}
              /\ s.response.body.error \in Seq(STRING)
              /\ s.response.body.error # <<>>
         /\ s.response.status = 200 => "error" \notin DOMAIN s.response.body
         /\ ~ ( /\ "error" \in DOMAIN s.response.body
                /\ DOMAIN s.response.body \cap ContentFields # {} )

\* A request whose eleven candidates all failed, none by timeout: its one
\* response is the error message.
C28_Witness ==
  \E r \in Live :
    /\ slot[r].pc = "done" /\ slot[r].sent = 1
    /\ Len(slot[r].failed) = NumModels /\ abandoned[r] = 0
    /\ slot[r].response.status = 500
    /\ DOMAIN slot[r].response.body = {"error"}
    /\ slot[r].finalResult = JNull


\* ------------------------------------------------------ collaborators answer
\* The handler under the assumption that every call it awaits is answered:
\* the select and the insert return, the video search returns, and each
\* provider call settles or loses the race against its 10 s timer.  Requests
\* need not arrive, and an abandoned provider call need not ever settle.
Answered(r) ==
  \/ SelectReturns(r)
  \/ AttemptRejects(r)
  \/ AttemptTimesOut(r)
  \/ AttemptTextThrows(r)
  \/ AttemptResolves(r)
  \/ InsertReturns(r)
  \/ VideoReturns(r)

SpecLive == Init /\ [][Next]_vars /\ \A r \in Req : WF_vars(Answered(r))

\* The handler of the request has started and has not returned.
Running(s) == s.pc \in {"awaitSelect", "awaitRace", "awaitInsert", "awaitVideo"}

\* C29: when every awaited call is answered, a request that was received
\* comes to its one response, the result or the error, and never calls the
\* provider more often than there are candidates.
C29_RunsToCompletion ==
  /\ [](\A r \in Live : Len(slot[r].issued) <= NumModels)
  /\ \A r \in Req :
       Running(slot[r]) ~>
         /\ slot[r].pc = "done" /\ slot[r].sent = 1
         /\ slot[r].response.status \in {200, 400, 500}
         /\ Len(slot[r].issued) <= NumModels

\* A request that went the longest way: the select, all eleven candidates,
\* the last of which answered with a lesson, the insert and the video
\* search, then its response.
C29_Witness ==
  \E r \in Live :
    /\ slot[r].pc = "done" /\ slot[r].sent = 1
    /\ slot[r].reads = 1 /\ Len(slot[r].issued) = NumModels
    /\ slot[r].parsedAt = NumModels /\ slot[r].writes = 1 /\ slot[r].searched
    /\ slot[r].response.status = 200


\* C30: every attempt that issues a generation call uses a credential that
\* is an element of the configured pool, which is not empty; the credential
\* is drawn anew for the attempt, so after any earlier credential the next
\* attempt can come with each credential of the pool; the pool is as the
\* environment configured it, no request changes it.
C30_CredentialFromPool ==
  /\ API_KEYS \in {<<>>, KeyEnv}
  /\ \A r \in Live :
       slot[r].pc = "awaitRace" =>
         /\ API_KEYS # <<>>
         /\ slot[r].activeKey \in Range(API_KEYS)
         /\ slot[r].modelIdx < NumModels =>
              \A k \in Range(API_KEYS) :
                ENABLED ( /\ AttemptRejects(r)
                          /\ slot'[r].pc = "awaitRace"
                          /\ slot'[r].modelIdx = slot[r].modelIdx + 1
                          /\ slot'[r].activeKey = k )


\* ------------------------------------------------------------------ the page
\* Home (the page component) together with the gateway it calls.  The user
\* edits the topic field, picks a file, switches the mode, starts a
\* generation by the button, by Enter in the topic field or by Try Another,
\* selects quiz options and submits the quiz.  Each fetch to /api/generate is
\* handled by one slot of the gateway.  The gateway has one provider key, no
\* video key and an empty table; the provider answers the first candidate
\* with a payload of the kind the request asked for.
S_Analyze == <<"A","n","a","l","y","z","e"," ","t","h","e"," ",
               "a","t","t","a","c","h","e","d"," ","f","i","l","e">>

\* The length of the base64 text of the picked file.
UiFileLen == 2048

UiTopics == {<<>>, S_Photosynthesis, ReqLongTopic.topic}

\* JSON.stringify({ topic: topic || "Analyze the attached file", level,
\* language, fileData, mimeType, mode }): the knobs of the key are not sent.
FetchBody(u) ==
  [topic |-> IF u.topic # <<>> THEN u.topic ELSE S_Analyze,
   level |-> S_Beginner, language |-> S_English, mode |-> u.mode,
   fileData |-> IF u.file THEN UiFileLen ELSE NoFile,
   explanationStyle |-> Undefined, complexity |-> Undefined,
   format |-> Undefined]

\* Mutant: no check of topic and file before the request.
startLearning_NoCheck(u, r) ==
  [u EXCEPT !.loading = TRUE, !.data = JNull, !.dataOf = 0, !.error = "",
            !.quizAnswers = [i \in 1..UiQuestions |-> ""],
            !.quizSubmitted = FALSE,
            !.bodies[r] = FetchBody(u), !.inflight = @ \cup {r},
            !.started = Append(@, r)]

\* startLearning up to its fetch: with neither topic nor file it sets the
\* error and returns; else it resets the page and sends the request, which
\* slot r will handle.
startLearning(u, r) ==
  IF u.topic = <<>> /\ ~u.file
  THEN [u EXCEPT !.error = "Please enter a topic OR upload a file!"]
  ELSE [u EXCEPT !.loading = TRUE, !.data = JNull, !.dataOf = 0, !.error = "",
                 !.quizAnswers = [i \in 1..UiQuestions |-> ""],
                 !.quizSubmitted = FALSE,
                 !.bodies[r] = FetchBody(u), !.inflight = @ \cup {r},
                 !.started = Append(@, r)]

\* startLearning after its fetch: res.json(), the throw when the status is
\* not ok, the type set from the mode of the call, setData; catch: setError;
\* finally: setLoading(false).
OnFetched(u, r, res) ==
  LET v == [u EXCEPT !.loading = FALSE, !.inflight = @ \ {r}]
  IN  IF res.status # 200
      THEN [v EXCEPT !.error = "request failed"]
      ELSE [v EXCEPT !.dataOf = r,
                     !.data = [res.body EXCEPT !.type =
                                 IF u.bodies[r].mode = S_quiz THEN "quiz"
                                 ELSE "lesson"]]

\* if (quizSubmitted) return; setQuizAnswers(prev => ({...prev, [qIndex]: option}))
handleMultiQuizSelect(u, qIndex, option) ==
  IF u.quizSubmitted THEN u ELSE [u EXCEPT !.quizAnswers[qIndex] = option]

\* The number of questions whose recorded answer is the correct one.
calculateScore(u) ==
  IF u.data = JNull \/ u.data.type # "quiz" THEN 0
  ELSE Cardinality({i \in 1..Len(u.data.questions) :
                      /\ i <= UiQuestions
                      /\ u.quizAnswers[i] = u.data.questions[i].correct_answer})

\* The quiz area is rendered.
QuizShown(u) == u.data # JNull /\ u.data.type = "quiz"

\* The page sends this many requests at most.
UiFetches == 2

\* The slot that handles the next fetch: the first one not yet used.
FreeSlot(r) ==
  /\ r <= UiFetches
  /\ slot[r].pc = "idle"
  /\ r \notin Range(ui.started)
  /\ \A p \in Req : p < r => p \in Range(ui.started)

InitUI ==
  /\ API_KEYS = <<"GOOGLE_API_KEY">>
  /\ YOUTUBE_API_KEY = FALSE
  /\ topic_cache = <<>>
  /\ slot = [r \in Req |-> IdleSlot]
  /\ abandoned = [r \in Req |-> 0]
  /\ ui = UiInit

\* onChange of the topic field.
SetTopic ==
  /\ \E v \in UiTopics : v # ui.topic /\ ui' = [ui EXCEPT !.topic = v]
  /\ UNCHANGED <<API_KEYS, YOUTUBE_API_KEY, topic_cache, slot, abandoned>>

\* onChange of the file input.
SetFile ==
  /\ ui' = [ui EXCEPT !.file = ~@]
  /\ UNCHANGED <<API_KEYS, YOUTUBE_API_KEY, topic_cache, slot, abandoned>>

\* The Lesson and Quiz buttons.
SetMode ==
  /\ \E m \in {S_lesson, S_quiz} : m # ui.mode /\ ui' = [ui EXCEPT !.mode = m]
  /\ UNCHANGED <<API_KEYS, YOUTUBE_API_KEY, topic_cache, slot, abandoned>>

\* The start button: disabled while loading.
ClickStart(r) ==
  /\ ~ui.loading
  /\ FreeSlot(r)
  /\ ui' = startLearning(ui, r)
  /\ UNCHANGED <<API_KEYS, YOUTUBE_API_KEY, topic_cache, slot, abandoned>>

\* Enter in the topic field: onKeyDown calls startLearning.
PressEnter(r) ==
  /\ FreeSlot(r)
  /\ ui' = startLearning(ui, r)
  /\ UNCHANGED <<API_KEYS, YOUTUBE_API_KEY, topic_cache, slot, abandoned>>

\* Try Another, shown under a submitted quiz.
TryAnother(r) ==
  /\ QuizShown(ui) /\ ui.quizSubmitted
  /\ FreeSlot(r)
  /\ ui' = startLearning(ui, r)
  /\ UNCHANGED <<API_KEYS, YOUTUBE_API_KEY, topic_cache, slot, abandoned>>

\* The request of a fetch reaches the gateway.
Arrives(r) ==
  /\ r \in ui.inflight /\ slot[r].pc = "idle"
  /\ \E key \in getRandomKey(API_KEYS) :
       slot' = [slot EXCEPT ![r] = OnRequest(IdleSlot, ui.bodies[r], key)]
  /\ UNCHANGED <<ui, API_KEYS, YOUTUBE_API_KEY, topic_cache, abandoned>>

\* The store answers the select.
SelectReturnsUI(r) == SelectReturns(r) /\ ~slot'[r].lookupFailed

\* The provider answers with a payload of the kind asked for.
AttemptResolvesUI(r) ==
  /\ AttemptResolves(r)
  /\ slot'[r].lastRaw \in
       IF slot[r].req.mode = S_quiz
       THEN { <<FenceJson, J(QuizOK), Fence, Ws>>, <<J(QuizBad)>> }
       ELSE { <<J(LessonOK)>> }

\* The response of the gateway reaches the page.
FetchReturns(r) ==
  /\ r \in ui.inflight /\ slot[r].pc = "done"
  /\ ui' = OnFetched(ui, r, slot[r].response)
  /\ UNCHANGED <<API_KEYS, YOUTUBE_API_KEY, topic_cache, slot, abandoned>>

\* A click on an option of a quiz question.
SelectOption ==
  /\ QuizShown(ui)
  /\ \E q \in 1..UiQuestions, opt \in {"A", "B"} :
       ui' = handleMultiQuizSelect(ui, q, opt)
  /\ UNCHANGED <<API_KEYS, YOUTUBE_API_KEY, topic_cache, slot, abandoned>>

\* Submit Quiz, shown while the quiz is not submitted.
SubmitQuiz ==
  /\ QuizShown(ui) /\ ~ui.quizSubmitted
  /\ ui' = [ui EXCEPT !.quizSubmitted = TRUE]
  /\ UNCHANGED <<API_KEYS, YOUTUBE_API_KEY, topic_cache, slot, abandoned>>

NextUI ==
  \/ SetTopic
  \/ SetFile
  \/ SetMode
  \/ SelectOption
  \/ SubmitQuiz
  \/ \E r \in Req :
       \/ TryAnother(r)
       \/ ClickStart(r)
       \/ PressEnter(r)
       \/ Arrives(r)
       \/ SelectReturnsUI(r)
       \/ AttemptResolvesUI(r)
       \/ InsertReturns(r)
       \/ VideoReturns(r)
       \/ FetchReturns(r)

SpecUI == InitUI /\ [][NextUI]_vars


\* The requests the gateway has begun to handle.
Handled == {r \in Req : slot[r].pc # "idle"}

\* C31: a generation started with neither a topic nor a file is stopped in
\* the page: startLearning sets its error and sends no request, so every
\* request the gateway handles (select, provider calls, insert) comes from a
\* fetch of the page and carries a topic the user typed or a file.
C31_NeitherTopicNorFile ==
  [][ /\ (ui.topic = <<>> /\ ~ui.file) =>
           /\ ui'.started = ui.started /\ ui'.bodies = ui.bodies
           /\ ui'.inflight \subseteq ui.inflight
      /\ Handled' \subseteq Range(ui'.started)
      /\ \A r \in Range(ui'.started) :
           LET q == ui'.bodies[r] IN
           /\ q.topic # <<>> /\ q.topic # Undefined
           /\ q.topic = S_Analyze => HasFile(q)
           /\ r \in Handled' =>
                /\ slot'[r].req = q
                /\ slot'[r].reads + Len(slot'[r].issued) + slot'[r].writes > 0
                   => (q.topic # S_Analyze \/ HasFile(q))
    ]_vars

\* startLearning was called with an empty topic field and no file: the page
\* shows the error, no request was sent and the gateway has handled none.
C31_Witness ==
  /\ ui.topic = <<>> /\ ~ui.file
  /\ ui.error = "Please enter a topic OR upload a file!"
  /\ ~ui.loading
  /\ ui.started = <<>> /\ ui.inflight = {}
  /\ Handled = {}
  /\ topic_cache = <<>>


\* -------------------------------------------------------- the referer check
\* The route version that checks the referer header before it reads the
\* body (route.ts, third handler); its checks of topic and fileData are those
\* of the handler above, which stands for what follows them.
S_localhost == <<"l","o","c","a","l","h","o","s","t">>
S_vercel    == <<"v","e","r","c","e","l",".","a","p","p">>

RefLocal  == <<"h","t","t","p",":","/","/">> \o S_localhost \o <<":","3","0","0","0","/">>
RefVercel == <<"h","t","t","p","s",":","/","/","s","k","i","l","l","f","l","o","w",".">>
               \o S_vercel \o <<"/">>
RefOther  == <<"h","t","t","p","s",":","/","/","e","v","i","l",".","e","x","a","m","p","l","e","/">>

\* The header is absent (get returns null) or one of three pages.
Referers == {Undefined, RefLocal, RefVercel, RefOther}

\* referer && !referer.includes("localhost") && !referer.includes("vercel.app")
Unauthorized(referer) ==
  /\ Truthy(referer)
  /\ ~Includes(referer, S_localhost)
  /\ ~Includes(referer, S_vercel)

\* Mutant: the referer is checked after the cache lookup was sent.
OnRequestRoute_Late(s, referer, q, key) ==
  LET t == OnRequest(s, q, key)
  IN  IF Unauthorized(referer) /\ t.pc # "awaitSelect"
      THEN RespondError([s EXCEPT !.req = q], 403, <<"Unauthorized source">>)
      ELSE t

\* The handler from its entry to its first await after the checks.
OnRequestRoute(s, referer, q, key) ==
  IF Unauthorized(referer)
  THEN RespondError([s EXCEPT !.req = q], 403, <<"Unauthorized source">>)
  ELSE OnRequest(s, q, key)

ReceiveRoute(r) ==
  /\ slot[r].pc = "idle"
  /\ \E referer \in Referers, q \in Requests, key \in getRandomKey(API_KEYS) :
       slot' = [slot EXCEPT ![r] =
                  OnRequestRoute([IdleSlot EXCEPT !.referer = referer],
                                 referer, q, key)]
  /\ UNCHANGED <<ui, API_KEYS, YOUTUBE_API_KEY, topic_cache, abandoned>>

NextRoute ==
  \E r \in Req :
    \/ ReceiveRoute(r)
    \/ SelectReturns(r)
    \/ AttemptRejects(r)
    \/ AttemptResolves(r)
    \/ InsertReturns(r)
    \/ VideoReturns(r)

SpecRoute == Init /\ [][NextRoute]_vars

\* The request is one the edge checks turn away.
TopicTooLong(q) == Truthy(q.topic) /\ Len(q.topic) > MaxTopicLen
FileTooLarge(q) == HasFile(q) /\ q.fileData > MaxFileLen
EdgeRejects(s) ==
  Unauthorized(s.referer) \/ TopicTooLong(s.req) \/ FileTooLarge(s.req)

\* C32: a request that the edge checks turn away (topic longer than 500
\* characters, fileData larger than 10MB, or a referer that is present and
\* contains neither localhost nor vercel.app) gets a 4xx error response and
\* nothing else happens for it: no select, no provider call, no insert, no
\* video search.
C32_EdgeRejectionFrame ==
  \A r \in Live :
    LET s == slot[r] IN
    EdgeRejects(s) =>
      /\ s.pc = "done" /\ s.sent = 1
      /\ s.response.status \in 400..499
      /\ DOMAIN s.response.body = {"error"}
      /\ s.reads = 0 /\ s.issued = <<>> /\ s.writes = 0 /\ ~s.searched
      /\ s.finalResult = JNull

\* A lesson request from a foreign page was answered with 403 although the
\* table holds a row for its key; the table is as it was.
C32_Witness ==
  \E r \in Live :
    /\ slot[r].referer = RefOther /\ slot[r].req = ReqLesson
    /\ slot[r].pc = "done" /\ slot[r].response.status = 403
    /\ slot[r].reads = 0 /\ slot[r].issued = <<>>
    /\ topic_cache = <<Row(CacheKey(ReqLesson), LessonOK)>>


\* ------------------------------------------------------------ joined fields
\* Two bodies whose fields meet at the hyphens of the key: a topic of one or
\* two words, a one-letter level, a language with or without a region.
JoinRequests ==
  [topic : { Undefined, <<"a">>, <<"a"," ","b">> },
   level : { <<"b">>, <<"c">> },
   language : { <<"d">>, <<"c","-","d">> },
   mode : { Undefined, S_quiz }, fileData : {NoFile},
   explanationStyle : {Undefined}, complexity : {Undefined},
   format : {Undefined}]

InitJoin ==
  /\ API_KEYS = KeyEnv
  /\ YOUTUBE_API_KEY = FALSE
  /\ topic_cache = <<>>
  /\ abandoned = [r \in Req |-> 0]
  /\ ui = UiInit
  /\ \E q1 \in JoinRequests, q2 \in JoinRequests :
       slot = [r \in Req |->
                 IF r = 1 THEN [IdleSlot EXCEPT !.pc = "key", !.req = q1]
                 ELSE IF r = 2 THEN [IdleSlot EXCEPT !.pc = "key", !.req = q2]
                 ELSE [IdleSlot EXCEPT !.pc = "off"]]

SpecJoin == InitJoin /\ [][NextKey]_vars

HyphenFree(s) == \A i \in 1..Len(s) : s[i] # "-"

\* The knobs of the body, with their defaults, and its level have no hyphen.
HyphenFreeTokens(q) ==
  /\ HyphenFree(q.level)
  /\ HyphenFree(OrDefault(q.mode, S_lesson))
  /\ HyphenFree(OrDefault(q.explanationStyle, S_default))
  /\ HyphenFree(OrDefault(q.complexity, S_medium))
  /\ HyphenFree(OrDefault(q.format, S_paragraph))

\* C33: for requests without attachment whose level, mode, style,
\* complexity and format have no hyphen, two requests get the same cache key
\* only if their normalized topic, their level and their language are equal,
\* a body without topic counting as the topic uploaded-file.
C33_KeyInjective ==
  \A r1 \in Keyed, r2 \in Keyed :
    LET q1 == slot[r1].req
        q2 == slot[r2].req
    IN  ( /\ ~HasFile(q1) /\ ~HasFile(q2)
          /\ HyphenFreeTokens(q1) /\ HyphenFreeTokens(q2)
          /\ slot[r1].cacheKey = slot[r2].cacheKey )
        => /\ NormTopic(q1) = NormTopic(q2)
           /\ ToLowerCase(q1.level) = ToLowerCase(q2.level)
           /\ ToLowerCase(q1.language) = ToLowerCase(q2.language)


\* ------------------------------------------------------------ the prompt
S_balanced == <<"b","a","l","a","n","c","e","d">>

\* A value inside a template string: undefined prints as the word.
Interpolate(x) == IF x = Undefined THEN <<"u","n","d","e","f","i","n","e","d">> ELSE x

\* let systemPrompt: the template of the mode, given by the values it
\* interpolates, in the order of their places in the text.
SystemPrompt(q) ==
  IF q.mode = S_quiz
  THEN << "quiz", Interpolate(q.language), Interpolate(q.level),
          Interpolate(q.topic), Interpolate(q.language) >>
  ELSE << "lesson", Interpolate(q.language), Interpolate(q.level),
          OrDefault(q.explanationStyle, S_balanced),
          OrDefault(q.complexity, S_medium),
          OrDefault(q.format, S_paragraph),
          Interpolate(q.topic), Interpolate(q.language),
          Interpolate(q.format) >>

\* Lesson bodies without attachment that differ in what they send for the
\* knobs: nothing, the default token of the key, the default of the prompt.
PromptRequests ==
  [topic : { <<"a">>, <<"A"," ","b">> },
   level : { S_ex }, language : { S_en },
   mode : { Undefined, S_lesson }, fileData : {NoFile},
   explanationStyle : { Undefined, S_default, S_balanced },
   complexity : { Undefined, S_medium },
   format : { Undefined, S_paragraph }]

InitPrompt ==
  /\ API_KEYS = KeyEnv
  /\ YOUTUBE_API_KEY = FALSE
  /\ topic_cache = <<>>
  /\ abandoned = [r \in Req |-> 0]
  /\ ui = UiInit
  /\ \E q1 \in PromptRequests, q2 \in PromptRequests :
       slot = [r \in Req |->
                 IF r = 1 THEN [IdleSlot EXCEPT !.pc = "key", !.req = q1]
                 ELSE IF r = 2 THEN [IdleSlot EXCEPT !.pc = "key", !.req = q2]
                 ELSE [IdleSlot EXCEPT !.pc = "off"]]

\* The key and the prompt of a request are built.
BuildPrompt(r) ==
  /\ slot[r].pc = "key"
  /\ slot' = [slot EXCEPT ![r] = [slot[r] EXCEPT !.pc = "keyed",
                                   !.cacheKey = CacheKey(slot[r].req),
                                   !.systemPrompt = SystemPrompt(slot[r].req)]]
  /\ UNCHANGED <<ui, API_KEYS, YOUTUBE_API_KEY, topic_cache, abandoned>>

NextPrompt == \E r \in Req : BuildPrompt(r)

SpecPrompt == InitPrompt /\ [][NextPrompt]_vars

\* C34: two lesson requests without attachment that get the same
\* instruction text get the same cache key, so a request without a knob and
\* a request that passes the value the prompt puts in its place share one
\* cache entry.
C34_PromptAndKeyAgree ==
  \A r1 \in Keyed, r2 \in Keyed :
    ( /\ ~HasFile(slot[r1].req) /\ ~HasFile(slot[r2].req)
      /\ slot[r1].req.mode # S_quiz /\ slot[r2].req.mode # S_quiz
      /\ slot[r1].systemPrompt = slot[r2].systemPrompt )
    => slot[r1].cacheKey = slot[r2].cacheKey


\* ---------------------------------------------- a request after another one
\* The two requests of SpecTwo with the video key configured: the search
\* can find a video for the lesson of the request that generated it.
InitHit ==
  /\ API_KEYS = KeyEnv
  /\ YOUTUBE_API_KEY = TRUE
  /\ topic_cache = <<>>
  /\ slot = [r \in Req |-> IF r <= 2 THEN IdleSlot ELSE [IdleSlot EXCEPT !.pc = "off"]]
  /\ abandoned = [r \in Req |-> 0]
  /\ ui = UiInit

SpecHit == InitHit /\ [][NextTwo]_vars

\* The video reference the search puts into a lesson.
SearchedVideo == <<WatchUrl, searchYouTube("found")>>

\* C35: each row of the table holds the parsed result of the request that
\* inserted it, as it was before the video search; a request that hit the
\* row gets that result, which is what the inserting request was answered
\* with but for the video reference the search added, and the response of a
\* hit carries no video reference of the search.
C35_PersistedBeforeEnrichment ==
  /\ \A i \in DOMAIN topic_cache :
       \E o \in Live :
         /\ slot[o].inserted /\ slot[o].parsedAt # 0
         /\ topic_cache[i] = Row(slot[o].cacheKey, slot[o].parsed)
  /\ \A h \in Live :
       (slot[h].hit /\ slot[h].pc = "done") =>
         /\ ~slot[h].searched
         /\ slot[h].response.body.video_url # SearchedVideo
         /\ \E o \in Live \ {h} :
              /\ slot[o].inserted /\ slot[o].cacheKey = slot[h].cacheKey
              /\ slot[h].response = [status |-> 200, body |-> slot[o].parsed]
              /\ slot[o].pc = "done" =>
                   /\ slot[o].response.status = 200
                   /\ [slot[o].response.body EXCEPT !.video_url = slot[o].parsed.video_url]
                        = slot[h].response.body

\* The first request generated a lesson, stored it and was answered with
\* the video the search found; the second request hit the row and was
\* answered with the lesson without that video.
C35_Witness ==
  /\ slot[1].pc = "done" /\ slot[1].inserted /\ slot[1].parsed = LessonOK
  /\ slot[1].searched /\ slot[1].response.body.video_url = SearchedVideo
  /\ topic_cache = <<Row(slot[1].cacheKey, LessonOK)>>
  /\ slot[2].pc = "done" /\ slot[2].hit /\ slot[2].issued = <<>>
  /\ slot[2].response = [status |-> 200, body |-> LessonOK]


\* C36: a key that has at least one row in the table causes no provider
\* call any more: a later request without attachment for that key, answered
\* by a reachable store, is a hit, whatever sequence of requests, concurrent
\* ones included, has left the rows.
C36_EntryEndsProviderCalls ==
  \A r \in Live :
    LET s == slot[r] IN
    ( /\ ~HasFile(s.req)
      /\ s.reads = 1 /\ s.pc # "awaitSelect"
      /\ ~s.lookupFailed
      /\ s.rowsSeen >= 1 )
    => /\ s.issued = <<>> /\ s.writes = 0
       /\ s.pc = "done" /\ s.response.status = 200


\* C37: the page has one generate request in flight at most: while loading
\* is true no event starts a second request, neither the start button nor
\* Enter in the topic field nor Try Another, so the data on the page is
\* that of the request started last.
C37_OneRequestInFlight ==
  [][ /\ ui.loading => ui'.started = ui.started
      /\ Cardinality(ui'.inflight) <= 1
      /\ ui'.data # JNull => ui'.dataOf = Last(ui'.started)
    ]_vars


\* C38: once the quiz is submitted the recorded answers are frozen:
\* handleMultiQuizSelect leaves quizAnswers as it is, so the score that
\* calculateScore computes does not change and the quiz stays submitted
\* until a new startLearning, which empties quizAnswers and sets
\* quizSubmitted to false.
C38_SubmittedQuizFrozen ==
  [][ ui.quizSubmitted =>
        IF ui'.started = ui.started
        THEN /\ ui'.quizSubmitted
             /\ ui'.quizAnswers = ui.quizAnswers
             /\ calculateScore(ui') = calculateScore(ui)
        ELSE /\ ~ui'.quizSubmitted
             /\ ui'.quizAnswers = [i \in 1..UiQuestions |-> ""]
             /\ calculateScore(ui') = 0
    ]_vars

====
